---- MODULE Spec2Model ----
\* A model of src-tauri/src/lib.rs: the three Tauri commands tcp_print_escpos,
\* serial_list_ports and serial_print_escpos.  Every command hands its body to
\* spawn_blocking and awaits the join handle.  A call is modelled as a small
\* program whose steps are the blocking library calls of its body; the outcome
\* of every library call is chosen by the environment.
EXTENDS Integers, Sequences, FiniteSets, TLC

\* ---------------------------------------------------------------- bounds
NumCalls == 2        \* calls that may run concurrently
MaxChunks == 2       \* serial payloads have up to MaxChunks full chunks, and a rest
MaxTcpLen == 3       \* TCP payloads of the sequential specification have 0..MaxTcpLen bytes
MaxPorts == 3        \* the OS reports up to MaxPorts serial ports
MaxAddrs == 2        \* a host resolves to up to MaxAddrs addresses
MaxShort == 2        \* write() calls of one write_all that do not complete the buffer

\* ---------------------------------------------------------------- program constants
ChunkSize == 512     \* data.chunks(512)
ByteRange == 256     \* u8

Calls == 1..NumCalls

Min(a, b) == IF a <= b THEN a ELSE b

\* ---------------------------------------------------------------- values
\* Option<T>: None is the empty sequence, Some(x) the one-element sequence.
None == <<>>
Some(x) == <<x>>

\* Strings that are compared or interpolated are sequences of byte values.
COM1 == <<67, 79, 77, 49>>
COM3 == <<67, 79, 77, 51>>
COM10 == <<67, 79, 77, 49, 48>>
com1 == <<99, 111, 109, 49>>
PRINTER == <<112, 114, 110>>

\* The causes an I/O error of the environment can carry ({e} in the messages).
IoErrors == {"TimedOut", "BrokenPipe"}
\* Outcomes of the library calls whose result the code discards (let _ = ...).
IgnoredOutcomes == {"ok", "TimedOut"}

\* What the environment of a run may do: the causes its I/O errors carry, the
\* outcomes of the socket options and of the TCP flush (whose results the code
\* discards), how many write() calls of one write_all may fall short, and how
\* many addresses a host resolves to.
Environment(e, o, f, s, a) ==
  [errors |-> e, sockopts |-> o, flushes |-> f, shorts |-> s, addrs |-> a]

\* A payload of n bytes; the bytes depend on their position and on the seed.
Payload(n, seed) == [i \in 1..n |-> (seed + 7 * i) % ByteRange]

\* ---------------------------------------------------------------- results
\* Result<_, String>.  An error string is kept as the parts the format! call
\* interpolates: the literal text, the target it names (None when it names
\* none) and the cause {e} (None when no cause is interpolated).
NoResult == [tag |-> "None", msg |-> "", target |-> None, cause |-> None, val |-> <<>>]
Ok(v) == [tag |-> "Ok", msg |-> "", target |-> None, cause |-> None, val |-> v]
\* An error text that leaves out the cause.
ErrNoCause(m, t, e) == [tag |-> "Err", msg |-> m, target |-> t, cause |-> None, val |-> <<>>]

Err(m, t, e) == [tag |-> "Err", msg |-> m, target |-> t, cause |-> e, val |-> <<>>]

\* ---------------------------------------------------------------- arguments
NoCall == [op |-> "none", host |-> <<>>, port |-> 0, name |-> <<>>, baud |-> 0, data |-> <<>>]
TcpArgs(h, p, d) == [op |-> "tcp", host |-> h, port |-> p, name |-> <<>>, baud |-> 0, data |-> d]
SerialArgs(n, b, d) == [op |-> "serial", host |-> <<>>, port |-> 0, name |-> n, baud |-> b, data |-> d]
ListArgs == [op |-> "list", host |-> <<>>, port |-> 0, name |-> <<>>, baud |-> 0, data |-> <<>>]

VARIABLES
  env,       \* what the environment of this run may do (see Environment)
  args,      \* args[c]: the command invoked as call c and its arguments
  pc,        \* pc[c]: where call c is
  osPorts,   \* what serialport::available_ports() reports on this machine
  handles,   \* every socket and serial handle opened so far
  stream,    \* stream[c]: the id of the handle call c holds (NoHandle: none)
  addr,      \* addr[c]: the socket address call c resolved (0: none)
  pos,       \* pos[c]: bytes of data the chunks iterator of call c has yielded
  off,       \* off[c]: bytes of the current write_all buffer already written
  shorts,    \* shorts[c]: write() calls of the current write_all that did not finish it
  writes,    \* writes[c]: the buffers call c passed to write_all, in order
  log,       \* log[c]: the library calls call c made and their outcomes
  ret,       \* ret[c]: what the closure of call c returned (the join handle's value)
  result,    \* result[c]: what call c returned to its caller
  delivered  \* delivered[c]: how many results call c returned to its caller

vars == <<env, args, pc, osPorts, handles, stream, addr, pos, off, shorts, writes, log, ret,
          result, delivered>>

Event(e, r, a) == [ev |-> e, res |-> r, at |-> a]
Logged(c, e, r, a) == [log EXCEPT ![c] = Append(@, Event(e, r, a))]


\* ---------------------------------------------------------------- handles
\* A TcpStream or a serial port handle: its identity (the call that opened it
\* and a number), what it is connected to, whether it is still open, and the
\* bytes the peer has received on it.
NoHandle == <<>>
HandleId(hs, c) == <<c, 1 + Cardinality({h \in hs : h.owner = c})>>
NewHandle(hs, c, k, t) ==
  [id |-> HandleId(hs, c), owner |-> c, kind |-> k, target |-> t, open |-> TRUE, wire |-> <<>>]

\* A pool that hands out an open handle to the same target when there is one.
OpenedIdShared(hs, c, k, t) ==
  IF \E h \in hs : h.open /\ h.kind = k /\ h.target = t
    THEN (CHOOSE h \in hs : h.open /\ h.kind = k /\ h.target = t).id
    ELSE HandleId(hs, c)

\* A handle that is leaked instead of dropped.
DropLeaked(hs, i) == hs

\* TcpStream::connect_timeout / SerialPortBuilder::open: a fresh handle per call.
OpenHandle(hs, c, k, t) == hs \cup {NewHandle(hs, c, k, t)}

\* The handle a call holds after opening: the one just created.
OpenedId(hs, c, k, t) == HandleId(hs, c)

\* Drop of the handle when the closure returns (Ok or through `?`): closes it.
Drop(hs, i) == {IF h.id = i THEN [h EXCEPT !.open = FALSE] ELSE h : h \in hs}

\* One write() on handle i delivers the first n bytes of buf to the peer.
Deliver(hs, i, buf, n) ==
  {IF h.id = i THEN [h EXCEPT !.wire = @ \o SubSeq(buf, 1, n)] ELSE h : h \in hs}

\* ---------------------------------------------------------------- write_all
\* A write_all that starts over from the beginning of buf after a short write.
RestFromStart(buf, done) == SubSeq(buf, 1, Len(buf) - done)

\* The rest of buf that write_all still has to write after `done` bytes.
Rest(buf, done) == SubSeq(buf, done + 1, Len(buf))

\* The causes of an Err of write_all: an I/O error of write(), or write()
\* reporting 0 bytes (ErrorKind::WriteZero).
WriteErrors == env.errors \cup {"WriteZero"}

\* Sizes a write() that does not take the whole rest may report.
ShortSizes(rem) == {n \in {1, rem \div 2, rem - 1} : 0 < n /\ n < rem}

\* Write::write_all(buf) of call c, one write() per step.  write() may take the
\* whole rest (write_all returns Ok), take a part or be interrupted (the loop
\* goes on), report 0 bytes (ErrorKind::WriteZero) or fail (both returned as Err).
\* done and failed are what the caller does when write_all returns Ok and Err.
write_all(c, buf, done, failed) ==
  LET rem == Len(buf) - off[c]
      i == stream[c]
  IN \/ /\ handles' = Deliver(handles, i, Rest(buf, off[c]), rem)
        /\ done
     \/ /\ shorts[c] < env.shorts
        /\ \E n \in ShortSizes(rem) :
             /\ handles' = Deliver(handles, i, Rest(buf, off[c]), n)
             /\ off' = [off EXCEPT ![c] = @ + n]
        /\ shorts' = [shorts EXCEPT ![c] = @ + 1]
        /\ UNCHANGED <<pc, stream, pos, writes, log, ret>>
     \/ /\ shorts[c] < env.shorts            \* ErrorKind::Interrupted: retried
        /\ shorts' = [shorts EXCEPT ![c] = @ + 1]
        /\ UNCHANGED <<pc, handles, stream, pos, off, writes, log, ret>>
     \/ failed

\* ---------------------------------------------------------------- tcp_print_escpos
\* (host, port).to_socket_addrs(): the addresses a successful resolution yields.
Resolved(n) == [k \in 1..n |-> k]

\* .next() on the resolved addresses: the first, if any (0: none).
FirstAddr(addrs) == IF addrs = <<>> THEN 0 ELSE Head(addrs)

\* lines 19-23: resolve the host and keep the first address.
tcp_resolve(c) ==
  /\ pc[c] = "t_resolve"
  /\ \/ \E e \in env.errors :
          /\ log' = Logged(c, "to_socket_addrs", e, 0)
          /\ ret' = [ret EXCEPT ![c] = Err("Unable to resolve host", None, Some(e))]
          /\ pc' = [pc EXCEPT ![c] = "joined"]
          /\ UNCHANGED addr
     \/ \E n \in 0..env.addrs :
          /\ log' = Logged(c, "to_socket_addrs", "ok", n)
          /\ IF FirstAddr(Resolved(n)) = 0
               THEN /\ ret' = [ret EXCEPT ![c] = Err("Unable to resolve host", None, None)]
                    /\ pc' = [pc EXCEPT ![c] = "joined"]
                    /\ UNCHANGED addr
               ELSE /\ addr' = [addr EXCEPT ![c] = FirstAddr(Resolved(n))]
                    /\ pc' = [pc EXCEPT ![c] = "t_connect"]
                    /\ UNCHANGED ret
  /\ UNCHANGED <<env, args, osPorts, handles, stream, pos, off, shorts, writes, result, delivered>>

\* A connect that goes on to the next resolved address when one fails.
tcp_connect_each(c) ==
  /\ pc[c] = "t_connect"
  /\ \/ /\ log' = Logged(c, "connect", "ok", addr[c])
        /\ handles' = OpenHandle(handles, c, "tcp", args[c].host)
        /\ stream' = [stream EXCEPT ![c] = OpenedId(handles, c, "tcp", args[c].host)]
        /\ pc' = [pc EXCEPT ![c] = "t_sockopt"]
        /\ UNCHANGED <<ret, addr>>
     \/ \E e \in env.errors :
          /\ log' = Logged(c, "connect", e, addr[c])
          /\ IF addr[c] < log[c][1].at
               THEN /\ addr' = [addr EXCEPT ![c] = @ + 1]
                    /\ UNCHANGED <<pc, ret>>
               ELSE /\ ret' = [ret EXCEPT ![c] = Err("TCP connect failed", None, Some(e))]
                    /\ pc' = [pc EXCEPT ![c] = "joined"]
                    /\ UNCHANGED addr
          /\ UNCHANGED <<handles, stream>>
  /\ UNCHANGED <<env, args, osPorts, pos, off, shorts, writes, result, delivered>>

\* lines 25-27: one connect_timeout to the resolved address.
tcp_connect(c) ==
  /\ pc[c] = "t_connect"
  /\ \/ /\ log' = Logged(c, "connect", "ok", addr[c])
        /\ handles' = OpenHandle(handles, c, "tcp", args[c].host)
        /\ stream' = [stream EXCEPT ![c] = OpenedId(handles, c, "tcp", args[c].host)]
        /\ pc' = [pc EXCEPT ![c] = "t_sockopt"]
        /\ UNCHANGED ret
     \/ \E e \in env.errors :
          /\ log' = Logged(c, "connect", e, addr[c])
          /\ ret' = [ret EXCEPT ![c] = Err("TCP connect failed", None, Some(e))]
          /\ pc' = [pc EXCEPT ![c] = "joined"]
          /\ UNCHANGED <<handles, stream>>
  /\ UNCHANGED <<env, args, osPorts, addr, pos, off, shorts, writes, result, delivered>>

\* lines 28-32: set_write_timeout and set_nodelay, results discarded; then
\* write_all(&data) is entered (an empty buffer needs no write()).
tcp_sockopt(c) ==
  /\ pc[c] = "t_sockopt"
  /\ \E r1 \in env.sockopts, r2 \in env.sockopts :
       log' = [log EXCEPT ![c] =
                 IF args[c].data = <<>>
                   THEN @ \o <<Event("set_write_timeout", r1, 0), Event("set_nodelay", r2, 0),
                               Event("write_all", "ok", 0)>>
                   ELSE @ \o <<Event("set_write_timeout", r1, 0), Event("set_nodelay", r2, 0)>>]
  /\ writes' = [writes EXCEPT ![c] = Append(@, args[c].data)]
  /\ off' = [off EXCEPT ![c] = 0]
  /\ shorts' = [shorts EXCEPT ![c] = 0]
  /\ pc' = [pc EXCEPT ![c] = IF args[c].data = <<>> THEN "t_flush" ELSE "t_write"]
  /\ UNCHANGED <<env, args, osPorts, handles, stream, addr, pos, ret, result, delivered>>

tcp_write_done(c) ==
  /\ log' = Logged(c, "write_all", "ok", 0)
  /\ pc' = [pc EXCEPT ![c] = "t_flush"]
  /\ off' = [off EXCEPT ![c] = 0]
  /\ shorts' = [shorts EXCEPT ![c] = 0]
  /\ UNCHANGED <<stream, pos, writes, ret>>

tcp_write_failed(c, e) ==
  /\ log' = Logged(c, "write_all", e, 0)
  /\ ret' = [ret EXCEPT ![c] = Err("TCP write failed", None, Some(e))]
  /\ handles' = Drop(handles, stream[c])
  /\ stream' = [stream EXCEPT ![c] = NoHandle]
  /\ pc' = [pc EXCEPT ![c] = "joined"]
  /\ off' = [off EXCEPT ![c] = 0]
  /\ shorts' = [shorts EXCEPT ![c] = 0]
  /\ UNCHANGED <<pos, writes>>

\* lines 31-33: stream.write_all(&data), `?` on its error.
tcp_write(c) ==
  /\ pc[c] = "t_write"
  /\ write_all(c, args[c].data, tcp_write_done(c),
               \E e \in WriteErrors : tcp_write_failed(c, e))
  /\ UNCHANGED <<env, args, osPorts, addr, result, delivered>>

\* A flush whose error is returned with `?`.
tcp_flush_checked(c) ==
  /\ pc[c] = "t_flush"
  /\ \E r \in env.flushes :
       /\ log' = Logged(c, "flush", r, 0)
       /\ ret' = [ret EXCEPT ![c] =
                    IF r = "ok" THEN Ok(<<>>) ELSE Err("TCP flush failed", None, Some(r))]
  /\ handles' = Drop(handles, stream[c])
  /\ stream' = [stream EXCEPT ![c] = NoHandle]
  /\ pc' = [pc EXCEPT ![c] = "joined"]
  /\ UNCHANGED <<env, args, osPorts, addr, pos, off, shorts, writes, result, delivered>>

\* lines 34-37: flush with its result discarded, Ok(()), and the stream is dropped.
tcp_flush(c) ==
  /\ pc[c] = "t_flush"
  /\ \E r \in env.flushes : log' = Logged(c, "flush", r, 0)
  /\ ret' = [ret EXCEPT ![c] = Ok(<<>>)]
  /\ handles' = Drop(handles, stream[c])
  /\ stream' = [stream EXCEPT ![c] = NoHandle]
  /\ pc' = [pc EXCEPT ![c] = "joined"]
  /\ UNCHANGED <<env, args, osPorts, addr, pos, off, shorts, writes, result, delivered>>


\* ---------------------------------------------------------------- serial_print_escpos
\* Chunks one byte short of the chunk size.
ChunkEndShort(len, p) == p + Min(len - p, ChunkSize - 1)

\* slice::chunks(512): the end of the chunk that starts after p of len bytes.
ChunkEnd(len, p) == p + Min(len - p, ChunkSize)

\* The chunk the iterator yields after p bytes of data.
NextChunk(data, p) == SubSeq(data, p + 1, ChunkEnd(Len(data), p))

\* line 100: the for loop asks the iterator for the next chunk; when there is
\* one, write_all(chunk) is entered, otherwise the loop ends and flush is next.
serial_loop(c) ==
  IF pos[c] = Len(args[c].data)
    THEN /\ pc' = [pc EXCEPT ![c] = "s_flush"]
         /\ UNCHANGED <<pos, off, shorts, writes>>
    ELSE /\ writes' = [writes EXCEPT ![c] = Append(@, NextChunk(args[c].data, pos[c]))]
         /\ pos' = [pos EXCEPT ![c] = ChunkEnd(Len(args[c].data), pos[c])]
         /\ off' = [off EXCEPT ![c] = 0]
         /\ shorts' = [shorts EXCEPT ![c] = 0]
         /\ pc' = [pc EXCEPT ![c] = "s_write"]

\* lines 93-97: open the port once; `?` on the error.
serial_open(c) ==
  /\ pc[c] = "s_open"
  /\ \/ /\ log' = Logged(c, "open", "ok", 0)
        /\ handles' = OpenHandle(handles, c, "serial", args[c].name)
        /\ stream' = [stream EXCEPT ![c] = OpenedId(handles, c, "serial", args[c].name)]
        /\ serial_loop(c)
        /\ UNCHANGED ret
     \/ \E e \in env.errors :
          /\ log' = Logged(c, "open", e, 0)
          /\ ret' = [ret EXCEPT ![c] =
                       Err("Unable to open serial port", Some(args[c].name), Some(e))]
          /\ pc' = [pc EXCEPT ![c] = "joined"]
          /\ UNCHANGED <<handles, stream, pos, off, shorts, writes>>
  /\ UNCHANGED <<env, args, osPorts, addr, result, delivered>>

serial_write_done(c) ==
  /\ log' = Logged(c, "write_all", "ok", 0)
  /\ pc' = [pc EXCEPT ![c] = "s_sleep"]
  /\ off' = [off EXCEPT ![c] = 0]
  /\ shorts' = [shorts EXCEPT ![c] = 0]
  /\ UNCHANGED <<stream, pos, writes, ret>>

\* A chunk write whose error is discarded: the loop goes on with the next chunk.
serial_write_ignored(c, e) ==
  /\ log' = Logged(c, "write_all", e, 0)
  /\ pc' = [pc EXCEPT ![c] = "s_sleep"]
  /\ off' = [off EXCEPT ![c] = 0]
  /\ shorts' = [shorts EXCEPT ![c] = 0]
  /\ UNCHANGED <<handles, stream, pos, writes, ret>>

serial_write_failed(c, e) ==
  /\ log' = Logged(c, "write_all", e, 0)
  /\ ret' = [ret EXCEPT ![c] = Err("Serial write failed", Some(args[c].name), Some(e))]
  /\ handles' = Drop(handles, stream[c])
  /\ stream' = [stream EXCEPT ![c] = NoHandle]
  /\ pc' = [pc EXCEPT ![c] = "joined"]
  /\ off' = [off EXCEPT ![c] = 0]
  /\ shorts' = [shorts EXCEPT ![c] = 0]
  /\ UNCHANGED <<pos, writes>>

\* lines 101-102: sp.write_all(chunk), `?` on its error.
serial_write(c) ==
  /\ pc[c] = "s_write"
  /\ write_all(c, writes[c][Len(writes[c])], serial_write_done(c),
               \E e \in WriteErrors : serial_write_failed(c, e))
  /\ UNCHANGED <<env, args, osPorts, addr, result, delivered>>

\* line 103: sleep 20 ms after the chunk, then the loop goes on.
serial_sleep(c) ==
  /\ pc[c] = "s_sleep"
  /\ log' = Logged(c, "sleep", "ok", 0)
  /\ serial_loop(c)
  /\ UNCHANGED <<env, args, osPorts, handles, stream, addr, ret, result, delivered>>

\* lines 106-109: flush, `?` on its error, Ok(()); the port is dropped either way.
serial_flush(c) ==
  /\ pc[c] = "s_flush"
  /\ \/ /\ log' = Logged(c, "flush", "ok", 0)
        /\ ret' = [ret EXCEPT ![c] = Ok(<<>>)]
     \/ \E e \in env.errors :
          /\ log' = Logged(c, "flush", e, 0)
          /\ ret' = [ret EXCEPT ![c] =
                       Err("Serial flush failed", Some(args[c].name), Some(e))]
  /\ handles' = Drop(handles, stream[c])
  /\ stream' = [stream EXCEPT ![c] = NoHandle]
  /\ pc' = [pc EXCEPT ![c] = "joined"]
  /\ UNCHANGED <<env, args, osPorts, addr, pos, off, shorts, writes, result, delivered>>

\* ---------------------------------------------------------------- serial_list_ports
\* serialport::SerialPortInfo; info is Some(UsbPortInfo) for a UsbPort only.
UsbPortInfo(v, p, sn, m, pr) ==
  [vid |-> v, pid |-> p, serial_number |-> sn, manufacturer |-> m, product |-> pr]
SerialPortInfo(n, t, i) == [port_name |-> n, port_type |-> t, info |-> i]

\* String::cmp: byte-wise lexicographic, a proper prefix is smaller.
RECURSIVE StrCmp(_, _)
StrCmp(a, b) ==
  IF a = <<>> /\ b = <<>> THEN 0
  ELSE IF a = <<>> THEN -1
  ELSE IF b = <<>> THEN 1
  ELSE IF Head(a) < Head(b) THEN -1
  ELSE IF Head(a) > Head(b) THEN 1
  ELSE StrCmp(Tail(a), Tail(b))

\* The comparator of line 47.
PortCmp(a, b) == StrCmp(a.port_name, b.port_name)

\* An unstable sort: an element goes before those that compare equal.
RECURSIVE InsertUnstable(_, _)
InsertUnstable(sorted, p) ==
  IF sorted = <<>> THEN <<p>>
  ELSE IF PortCmp(p, Head(sorted)) <= 0 THEN <<p>> \o sorted
  ELSE <<Head(sorted)>> \o InsertUnstable(Tail(sorted), p)

\* slice::sort_by is a stable sort: an element goes after those not greater.
RECURSIVE Insert(_, _)
Insert(sorted, p) ==
  IF sorted = <<>> THEN <<p>>
  ELSE IF PortCmp(p, Head(sorted)) < 0 THEN <<p>> \o sorted
  ELSE <<Head(sorted)>> \o Insert(Tail(sorted), p)

RECURSIVE SortBy(_)
SortBy(ports) ==
  IF ports = <<>> THEN <<>>
  ELSE Insert(SortBy(SubSeq(ports, 1, Len(ports) - 1)), ports[Len(ports)])

\* A DTO whose ids default to 0 instead of None.
SerialPortDtoZeroIds(p) ==
  LET dto == [port_name |-> p.port_name, port_type |-> "unknown", manufacturer |-> None,
              product |-> None, serial_number |-> None, vid |-> Some(0), pid |-> Some(0)]
  IN IF p.port_type = "UsbPort"
       THEN [dto EXCEPT !.port_type = "usb",
                        !.manufacturer = p.info[1].manufacturer,
                        !.product = p.info[1].product,
                        !.serial_number = p.info[1].serial_number,
                        !.vid = Some(p.info[1].vid),
                        !.pid = Some(p.info[1].pid)]
     ELSE IF p.port_type = "BluetoothPort" THEN [dto EXCEPT !.port_type = "bluetooth"]
     ELSE IF p.port_type = "PciPort" THEN [dto EXCEPT !.port_type = "pci"]
     ELSE dto

\* lines 52-80: the DTO of one port.
SerialPortDto(p) ==
  LET dto == [port_name |-> p.port_name, port_type |-> "unknown", manufacturer |-> None,
              product |-> None, serial_number |-> None, vid |-> None, pid |-> None]
  IN IF p.port_type = "UsbPort"
       THEN [dto EXCEPT !.port_type = "usb",
                        !.manufacturer = p.info[1].manufacturer,
                        !.product = p.info[1].product,
                        !.serial_number = p.info[1].serial_number,
                        !.vid = Some(p.info[1].vid),
                        !.pid = Some(p.info[1].pid)]
     ELSE IF p.port_type = "BluetoothPort" THEN [dto EXCEPT !.port_type = "bluetooth"]
     ELSE IF p.port_type = "PciPort" THEN [dto EXCEPT !.port_type = "pci"]
     ELSE dto

\* lines 49-82: into_iter().map(..).collect().
MapDto(ports) == [i \in 1..Len(ports) |-> SerialPortDto(ports[i])]

\* lines 45-84: the whole closure: one OS query, sort, map.
list_ports(c) ==
  /\ pc[c] = "l_query"
  /\ \/ /\ log' = Logged(c, "available_ports", "ok", Len(osPorts))
        /\ ret' = [ret EXCEPT ![c] = Ok(MapDto(SortBy(osPorts)))]
     \/ \E e \in env.errors :
          /\ log' = Logged(c, "available_ports", e, 0)
          /\ ret' = [ret EXCEPT ![c] = Err("Unable to list serial ports", None, Some(e))]
  /\ pc' = [pc EXCEPT ![c] = "joined"]
  /\ UNCHANGED <<env, args, osPorts, handles, stream, addr, pos, off, shorts, writes, result,
                 delivered>>

\* ---------------------------------------------------------------- spawn_blocking / await
\* The first statement of the closure of each command.
Entry(op) == IF op = "tcp" THEN "t_resolve" ELSE IF op = "serial" THEN "s_open" ELSE "l_query"

\* The text of the map_err on the join handle (lines 39, 87, 111).
TaskFailedMsg(op) == IF op = "list" THEN "List ports task failed" ELSE "Print task failed"

\* A worker thread takes the queued closure and starts running it.
start(c) ==
  /\ pc[c] = "queued"
  /\ pc' = [pc EXCEPT ![c] = Entry(args[c].op)]
  /\ UNCHANGED <<env, args, osPorts, handles, stream, addr, pos, off, shorts, writes, log, ret,
                 result, delivered>>

\* The runtime drops the queued closure before it ran: the join handle yields a
\* JoinError, which map_err turns into the command's error.
task_failed(c) ==
  /\ pc[c] = "queued"
  /\ log' = Logged(c, "join", "cancelled", 0)
  /\ result' = [result EXCEPT ![c] = Err(TaskFailedMsg(args[c].op), None, Some("cancelled"))]
  /\ delivered' = [delivered EXCEPT ![c] = @ + 1]
  /\ pc' = [pc EXCEPT ![c] = "done"]
  /\ UNCHANGED <<env, args, osPorts, handles, stream, addr, pos, off, shorts, writes, ret>>

\* .await yields the closure's value and `?` passes it to the caller.
await(c) ==
  /\ pc[c] = "joined"
  /\ result' = [result EXCEPT ![c] = ret[c]]
  /\ delivered' = [delivered EXCEPT ![c] = @ + 1]
  /\ pc' = [pc EXCEPT ![c] = "done"]
  /\ UNCHANGED <<env, args, osPorts, handles, stream, addr, pos, off, shorts, writes, log, ret>>

\* ---------------------------------------------------------------- inputs
USB_A == SerialPortInfo(COM3, "UsbPort", Some(UsbPortInfo(1155, 22336, Some("SN1"), Some("ACME"), None)))
BT_1 == SerialPortInfo(COM1, "BluetoothPort", None)
PCI_1 == SerialPortInfo(COM1, "PciPort", None)
UNK_1 == SerialPortInfo(com1, "Unknown", None)
USB_B == SerialPortInfo(COM10, "UsbPort", Some(UsbPortInfo(0, 0, None, None, None)))
PortPool == {USB_A, BT_1, PCI_1, UNK_1, USB_B}

PortLists == UNION {[1..n -> PortPool] : n \in 0..MaxPorts}

SerialLens == {k * ChunkSize + r : k \in 0..MaxChunks, r \in {0, 1, ChunkSize - 1}}

\* The calls of the sequential specification: one call, inputs of every shape.
SeqArgs ==
  {TcpArgs(PRINTER, 9100, Payload(n, 20)) : n \in 0..MaxTcpLen}
    \cup {SerialArgs(COM1, 9600, Payload(n, 1)) : n \in SerialLens}
    \cup {ListArgs}

\* The calls of the concurrent specification: call c sends its own payload.
ConcArgs(c) ==
  {TcpArgs(PRINTER, 9100, Payload(2, 20 + c)), SerialArgs(COM1, 9600, Payload(2, 40 + c)),
   ListArgs}

InitLocals ==
  /\ pc = [c \in Calls |-> IF args[c].op = "none" THEN "unused" ELSE "queued"]
  /\ handles = {}
  /\ stream = [c \in Calls |-> NoHandle]
  /\ addr = [c \in Calls |-> 0]
  /\ pos = [c \in Calls |-> 0]
  /\ off = [c \in Calls |-> 0]
  /\ shorts = [c \in Calls |-> 0]
  /\ writes = [c \in Calls |-> <<>>]
  /\ log = [c \in Calls |-> <<>>]
  /\ ret = [c \in Calls |-> NoResult]
  /\ result = [c \in Calls |-> NoResult]
  /\ delivered = [c \in Calls |-> 0]

\* Concurrent calls on a machine with the ports COM3 and COM1, where every
\* library call may fail (with one cause), the socket options succeed, a
\* write() falls short at most once per write_all and hosts have one address.
Init ==
  /\ env = Environment({"TimedOut"}, {"ok"}, IgnoredOutcomes, 1, 1)
  /\ args \in {a \in [Calls -> UNION {ConcArgs(c) : c \in Calls}] :
                 \A c \in Calls : a[c] \in ConcArgs(c)}
  /\ osPorts = <<USB_A, BT_1>>
  /\ InitLocals

\* One call at a time, with inputs of every shape.
InitSeq ==
  /\ env = Environment(IoErrors, IgnoredOutcomes, IgnoredOutcomes, MaxShort, MaxAddrs)
  /\ \E a \in SeqArgs : args = [c \in Calls |-> IF c = 1 THEN a ELSE NoCall]
  /\ osPorts \in (IF args[1].op = "list" THEN PortLists ELSE {<<>>})
  /\ InitLocals

\* One step of call c.
Step(c) ==
  \/ start(c)
  \/ task_failed(c)
  \/ tcp_resolve(c)
  \/ tcp_connect(c)
  \/ tcp_sockopt(c)
  \/ tcp_write(c)
  \/ tcp_flush(c)
  \/ serial_open(c)
  \/ serial_write(c)
  \/ serial_sleep(c)
  \/ serial_flush(c)
  \/ list_ports(c)
  \/ await(c)

Next == \E c \in Calls : Step(c)

Spec == Init /\ [][Next]_vars

SpecSeq == InitSeq /\ [][Next]_vars

\* Worker threads run and every library call returns (the 3 s timeouts bound them).
Fairness == \A c \in Calls : WF_vars(Step(c))

FairSpec == Spec /\ Fairness


\* ================================================================ properties
HandlesOf(c) == {h \in handles : h.owner = c}
Events(c, e) == SelectSeq(log[c], LAMBDA x : x.ev = e)
Failed(c, e) == \E i \in 1..Len(log[c]) : log[c][i].ev = e /\ log[c][i].res # "ok"
Succeeded(c, e) == \E i \in 1..Len(log[c]) : log[c][i].ev = e /\ log[c][i].res = "ok"
Returned(c) == pc[c] \in {"joined", "done"}
\* What a returned call returns: the closure's value once joined, the command's
\* result once it is delivered.
Outcome(c) == IF pc[c] = "done" THEN result[c] ELSE ret[c]
IsPrefix(a, b) == Len(a) <= Len(b) /\ a = SubSeq(b, 1, Len(a))

RECURSIVE Concat(_)
Concat(ss) == IF ss = <<>> THEN <<>> ELSE Head(ss) \o Concat(Tail(ss))

\* ---------------------------------------------------------------- C1
\* Every chunk write of the serial call was accepted and the loop has ended.
AllChunksAccepted(c) ==
  /\ args[c].op = "serial"
  /\ pc[c] \in {"s_flush", "joined", "done"}
  /\ Succeeded(c, "open")
  /\ ~Failed(c, "write_all")

\* C1: when the port opens and accepts every write, the buffers passed to
\* write_all are the payload cut in order into chunks of 512 bytes: all but the
\* last have 512 bytes, the last has 1..512, there are ceil(len/512) of them and
\* their concatenation is the payload (which is also what the port received).
C1_SerialChunks ==
  \A c \in Calls :
    AllChunksAccepted(c) =>
      LET w == writes[c]
          n == Len(w)
          P == args[c].data
      IN /\ n * ChunkSize >= Len(P)
         /\ (n - 1) * ChunkSize < Len(P)
         /\ \A i \in 1..(n - 1) : Len(w[i]) = ChunkSize
         /\ n > 0 => Len(w[n]) \in 1..ChunkSize
         /\ Concat(w) = P
         /\ \A h \in HandlesOf(c) : h.wire = P

\* A 1025-byte payload was sent as writes of 512, 512 and 1 bytes.
C1_Witness ==
  \E c \in Calls :
    /\ AllChunksAccepted(c)
    /\ pc[c] = "done"
    /\ result[c].tag = "Ok"
    /\ Len(args[c].data) = 2 * ChunkSize + 1
    /\ Len(writes[c]) = 3
    /\ Len(writes[c][1]) = ChunkSize
    /\ Len(writes[c][2]) = ChunkSize
    /\ Len(writes[c][3]) = 1

\* ---------------------------------------------------------------- C2
\* C2: a tcp_print_escpos call that connected has one connection; while it
\* writes, the peer has received the first off bytes of the payload; when it
\* has returned, either it returned Ok and the peer received exactly the
\* payload, or it returned the write error and the peer received a proper
\* prefix of the payload.
C2_TcpWritesPayload ==
  \A c \in Calls :
    (args[c].op = "tcp" /\ Succeeded(c, "connect")) =>
      /\ Cardinality(HandlesOf(c)) = 1
      /\ \A h \in HandlesOf(c) :
           /\ pc[c] = "t_sockopt" => h.wire = <<>>
           /\ pc[c] = "t_write" => h.wire = SubSeq(args[c].data, 1, off[c])
           /\ pc[c] = "t_flush" => h.wire = args[c].data
           /\ Returned(c) =>
                \/ Outcome(c).tag = "Ok" /\ h.wire = args[c].data
                \/ /\ Outcome(c).tag = "Err"
                   /\ Outcome(c).msg = "TCP write failed"
                   /\ Failed(c, "write_all")
                   /\ IsPrefix(h.wire, args[c].data)
                   /\ h.wire # args[c].data

\* A call sent a payload of MaxTcpLen bytes and returned Ok.
C2_Witness ==
  \E c \in Calls :
    /\ args[c].op = "tcp"
    /\ pc[c] = "done"
    /\ result[c].tag = "Ok"
    /\ Len(args[c].data) = MaxTcpLen
    /\ \E h \in HandlesOf(c) : h.wire = args[c].data

\* ---------------------------------------------------------------- C3
\* C3: a returned serial_print_escpos call returned Ok exactly when the open,
\* every chunk write and the flush succeeded; after a failed open nothing was
\* written and no handle exists; after a failed chunk write no further chunk
\* was passed to write_all and no flush was issued; a failed flush is an error.
C3_SerialAllOrFail ==
  \A c \in Calls :
    (args[c].op = "serial" /\ Returned(c)) =>
      /\ Outcome(c).tag = "Ok" <=>
           /\ Succeeded(c, "open")
           /\ ~Failed(c, "write_all")
           /\ Len(Events(c, "write_all")) * ChunkSize >= Len(args[c].data)
           /\ Succeeded(c, "flush")
      /\ Outcome(c).tag \in {"Ok", "Err"}
      /\ Failed(c, "open") =>
           /\ writes[c] = <<>>
           /\ HandlesOf(c) = {}
           /\ Outcome(c).msg = "Unable to open serial port"
      /\ Failed(c, "write_all") =>
           /\ Len(Events(c, "write_all")) = Len(writes[c])
           /\ log[c][Len(log[c])].ev = "write_all"
           /\ Events(c, "flush") = <<>>
           /\ Outcome(c).msg = "Serial write failed"
      /\ Failed(c, "flush") => Outcome(c).msg = "Serial flush failed"

\* The write of the second of three chunks failed and the call returned the error.
C3_Witness ==
  \E c \in Calls :
    /\ args[c].op = "serial"
    /\ pc[c] = "done"
    /\ Len(args[c].data) = 2 * ChunkSize + 1
    /\ Failed(c, "write_all")
    /\ Len(writes[c]) = 2
    /\ result[c].tag = "Err"


\* ---------------------------------------------------------------- C5
\* The bus type the DTO of an OS port of type t is expected to carry.
BusOf(t) ==
  IF t = "UsbPort" THEN "usb"
  ELSE IF t = "BluetoothPort" THEN "bluetooth"
  ELSE IF t = "PciPort" THEN "pci"
  ELSE "unknown"

NamedIn(ports, n) == SelectSeq(ports, LAMBDA x : x.port_name = n)
BusTypes(dtos) == [i \in 1..Len(dtos) |-> dtos[i].port_type]
OsBusTypes(ports) == [i \in 1..Len(ports) |-> BusOf(ports[i].port_type)]

ListedOk(c) == args[c].op = "list" /\ Returned(c) /\ Outcome(c).tag = "Ok"

\* C5: the ports serial_list_ports returns are in ascending byte-wise order of
\* their names, there are as many as the OS reported, and for every name the
\* returned ports of that name are the OS's ports of that name in the OS's
\* order (so the result is a permutation of the OS list, and a stable one).
C5_ListSorted ==
  \A c \in Calls :
    ListedOk(c) =>
      LET out == Outcome(c).val
      IN /\ Len(out) = Len(osPorts)
         /\ \A i \in 1..(Len(out) - 1) : StrCmp(out[i].port_name, out[i + 1].port_name) <= 0
         /\ \A p \in PortPool :
              BusTypes(NamedIn(out, p.port_name)) = OsBusTypes(NamedIn(osPorts, p.port_name))

\* The OS reported COM3 (usb), COM1 (pci), COM1 (bluetooth), and the call
\* returned COM1 (pci), COM1 (bluetooth), COM3 (usb).
C5_Witness ==
  \E c \in Calls :
    /\ ListedOk(c)
    /\ pc[c] = "done"
    /\ osPorts = <<USB_A, PCI_1, BT_1>>
    /\ [i \in 1..3 |-> result[c].val[i].port_name] = <<COM1, COM1, COM3>>
    /\ BusTypes(result[c].val) = <<"pci", "bluetooth", "usb">>

\* ---------------------------------------------------------------- C6
\* The DTO d shows the OS port p.
Shows(d, p) ==
  /\ d.port_name = p.port_name
  /\ d.port_type = BusOf(p.port_type)
  /\ p.port_type = "UsbPort" =>
       /\ d.vid = Some(p.info[1].vid)
       /\ d.pid = Some(p.info[1].pid)
       /\ d.manufacturer = p.info[1].manufacturer
       /\ d.product = p.info[1].product
       /\ d.serial_number = p.info[1].serial_number

\* C6: every returned descriptor has one of the four bus types and shows a port
\* the OS reported; a usb descriptor has vid and pid, and any other descriptor
\* has vid, pid, manufacturer, product and serial_number all absent.
C6_DtoFields ==
  \A c \in Calls :
    ListedOk(c) =>
      \A i \in 1..Len(Outcome(c).val) :
        LET d == Outcome(c).val[i]
        IN /\ d.port_type \in {"usb", "bluetooth", "pci", "unknown"}
           /\ \E j \in 1..Len(osPorts) : Shows(d, osPorts[j])
           /\ d.port_type = "usb" => d.vid # None /\ d.pid # None
           /\ d.port_type # "usb" =>
                /\ d.vid = None
                /\ d.pid = None
                /\ d.manufacturer = None
                /\ d.product = None
                /\ d.serial_number = None

\* A returned list holds a usb descriptor whose driver reported no manufacturer
\* and a descriptor of each other bus type.
C6_Witness ==
  \E c \in Calls :
    /\ ListedOk(c)
    /\ pc[c] = "done"
    /\ \E i \in 1..Len(result[c].val) :
         /\ result[c].val[i].port_type = "usb"
         /\ result[c].val[i].manufacturer = None
         /\ result[c].val[i].vid = Some(0)
    /\ {result[c].val[i].port_type : i \in 1..Len(result[c].val)} \ {"usb"} # {}

\* ---------------------------------------------------------------- C7
\* The host of a tcp call resolved to at least one address.
ResolvedSome(c) ==
  \E i \in 1..Len(log[c]) :
    log[c][i].ev = "to_socket_addrs" /\ log[c][i].res = "ok" /\ log[c][i].at > 0
ResolvedNone(c) ==
  \E i \in 1..Len(log[c]) :
    log[c][i].ev = "to_socket_addrs" /\ (log[c][i].res # "ok" \/ log[c][i].at = 0)

\* C7: a returned tcp_print_escpos call whose resolution, connect and write_all
\* succeeded returned Ok, whatever flush, set_write_timeout and set_nodelay
\* reported; a failed resolution, connect or write_all made it return the
\* error of that stage, and no later library call was made.
C7_TcpFlushIgnored ==
  \A c \in Calls :
    (args[c].op = "tcp" /\ Returned(c)) =>
      /\ (ResolvedSome(c) /\ Succeeded(c, "connect") /\ Succeeded(c, "write_all")) =>
           Outcome(c).tag = "Ok"
      /\ ResolvedNone(c) =>
           /\ Outcome(c).tag = "Err"
           /\ Outcome(c).msg = "Unable to resolve host"
           /\ Len(log[c]) = 1
           /\ HandlesOf(c) = {}
      /\ Failed(c, "connect") =>
           /\ Outcome(c).tag = "Err"
           /\ Outcome(c).msg = "TCP connect failed"
           /\ log[c][Len(log[c])].ev = "connect"
           /\ HandlesOf(c) = {}
      /\ Failed(c, "write_all") =>
           /\ Outcome(c).tag = "Err"
           /\ Outcome(c).msg = "TCP write failed"
           /\ log[c][Len(log[c])].ev = "write_all"
           /\ Events(c, "flush") = <<>>

\* A call returned Ok although flush, set_write_timeout and set_nodelay failed.
C7_Witness ==
  \E c \in Calls :
    /\ args[c].op = "tcp"
    /\ pc[c] = "done"
    /\ result[c].tag = "Ok"
    /\ Failed(c, "flush")
    /\ Failed(c, "set_write_timeout")
    /\ Failed(c, "set_nodelay")
    /\ args[c].data # <<>>

\* ---------------------------------------------------------------- C10
\* C10: a call makes each fallible library call at most once: one resolution,
\* one connect, to the first resolved address, whose failure is the call's
\* connect error even when more addresses were resolved; one open; write_all
\* once per chunk, the chunks passed being consecutive pieces of the payload;
\* one OS query, whose failure is the call's error, with no port list.
C10_NoRetry ==
  \A c \in Calls :
    /\ Len(Events(c, "to_socket_addrs")) <= 1
    /\ Len(Events(c, "connect")) <= 1
    /\ \A i \in 1..Len(log[c]) : log[c][i].ev = "connect" => log[c][i].at = 1
    /\ (Returned(c) /\ Failed(c, "connect")) =>
         Outcome(c).tag = "Err" /\ Outcome(c).msg = "TCP connect failed"
    /\ Len(Events(c, "open")) <= 1
    /\ Len(Events(c, "available_ports")) <= 1
    /\ args[c].op = "serial" =>
         /\ IsPrefix(Concat(writes[c]), args[c].data)
         /\ Len(Events(c, "write_all")) <= Len(writes[c])
         /\ \A i \in 1..Len(writes[c]) : writes[c][i] # <<>>
    /\ (Returned(c) /\ Failed(c, "available_ports")) =>
         /\ Outcome(c).tag = "Err"
         /\ Outcome(c).msg = "Unable to list serial ports"
         /\ Outcome(c).val = <<>>

\* The host resolved to two addresses, the connect to the first failed and the
\* call returned the connect error after that one attempt.
C10_Witness ==
  \E c \in Calls :
    /\ args[c].op = "tcp"
    /\ pc[c] = "done"
    /\ log[c][1].at = 2
    /\ Failed(c, "connect")
    /\ Len(Events(c, "connect")) = 1
    /\ result[c].msg = "TCP connect failed"


\* ---------------------------------------------------------------- C4
LastEvent(c) == log[c][Len(log[c])]

\* "host:port" as the bytes of the host, a colon and the port number.
TcpTarget(a) == a.host \o <<58, a.port>>

\* The text that names the stage ev of command op.
StageText(op, ev) ==
  IF ev = "join" THEN (IF op = "list" THEN "List ports task failed" ELSE "Print task failed")
  ELSE IF ev = "to_socket_addrs" THEN "Unable to resolve host"
  ELSE IF ev = "connect" THEN "TCP connect failed"
  ELSE IF ev = "open" THEN "Unable to open serial port"
  ELSE IF ev = "flush" THEN "Serial flush failed"
  ELSE IF ev = "available_ports" THEN "Unable to list serial ports"
  ELSE IF op = "tcp" THEN "TCP write failed"
  ELSE "Serial write failed"

\* C4 as stated: every error a call returns names the operation, the target
\* (host:port for tcp_print_escpos, the port name for serial_print_escpos) and
\* the underlying cause.
C4_ErrorNamesTargetAndCause ==
  \A c \in Calls :
    (pc[c] = "done" /\ result[c].tag = "Err") =>
      /\ result[c].msg # ""
      /\ result[c].cause # None
      /\ args[c].op = "tcp" => result[c].target = Some(TcpTarget(args[c]))
      /\ args[c].op = "serial" => result[c].target = Some(args[c].name)

\* C4 as amended: every error a call returns carries the text of the stage that
\* failed (the last library call it made); it names the port exactly when it is
\* the open, write or flush error of serial_print_escpos, and never host:port;
\* it carries the cause the failed library call reported, except that the error
\* for a host that resolved to no address carries no cause.
C4_ErrorNamesStage ==
  \A c \in Calls :
    (Returned(c) /\ Outcome(c).tag = "Err") =>
      LET r == Outcome(c)
          last == LastEvent(c)
      IN /\ last.res # "ok" \/ (last.ev = "to_socket_addrs" /\ last.at = 0)
         /\ r.msg = StageText(args[c].op, last.ev)
         /\ r.cause = IF last.res = "ok" THEN None ELSE Some(last.res)
         /\ r.target = IF args[c].op = "serial" /\ last.ev \in {"open", "write_all", "flush"}
                         THEN Some(args[c].name)
                         ELSE None
         /\ r.target # Some(TcpTarget(args[c]))

\* A tcp call returned the connect error: the text and the cause, no target.
C4_Witness ==
  \E c \in Calls :
    /\ args[c].op = "tcp"
    /\ pc[c] = "done"
    /\ result[c] = Err("TCP connect failed", None, Some("TimedOut"))

\* ---------------------------------------------------------------- C8
\* C8: a handle is held by the call that opened it and by no other; a call
\* that has returned (before its result is delivered, and after) holds no
\* handle and every handle it opened is closed, on the Ok path and on every
\* error path; no open handle is left without a running holder; a call opens
\* at most one handle; a tcp call whose host resolved makes exactly one
\* connect, which opens its one connection when it succeeds, and a call that
\* returned Ok has opened exactly one handle.
C8_HandleOwnedAndClosed ==
  /\ \A c \in Calls :
       /\ Returned(c) => (stream[c] = NoHandle /\ \A h \in HandlesOf(c) : ~h.open)
       /\ stream[c] # NoHandle =>
            \E h \in handles : h.id = stream[c] /\ h.owner = c /\ h.open
       /\ \A d \in Calls \ {c} : stream[c] # NoHandle => stream[c] # stream[d]
       /\ Cardinality(HandlesOf(c)) <= 1
       /\ args[c].op = "tcp" =>
            Cardinality(HandlesOf(c)) = Len(SelectSeq(Events(c, "connect"), LAMBDA x : x.res = "ok"))
       /\ (Returned(c) /\ Outcome(c).tag = "Ok" /\ args[c].op # "list") =>
            Cardinality(HandlesOf(c)) = 1
       /\ (Returned(c) /\ args[c].op = "tcp" /\ ResolvedSome(c)) =>
            Len(Events(c, "connect")) = 1
  /\ \A h \in handles : h.open => (stream[h.owner] = h.id /\ ~Returned(h.owner))
  /\ \A h1 \in handles, h2 \in handles : h1.id = h2.id => h1 = h2

\* Two calls have returned, one with a TCP write error after a partial write,
\* one with a serial flush error, and both handles are closed.
C8_Witness ==
  \E c \in Calls, d \in Calls :
    /\ pc[c] = "joined" /\ ret[c].msg = "TCP write failed"
    /\ pc[d] = "done" /\ result[d].msg = "Serial flush failed"
    /\ \E h \in HandlesOf(c) : ~h.open /\ h.wire # <<>>
    /\ \E h \in HandlesOf(d) : ~h.open

\* ---------------------------------------------------------------- C9
\* Library calls whose failure the command returns.
Surfaced(op, e) ==
  /\ e.ev \notin {"set_write_timeout", "set_nodelay", "sleep"}
  /\ ~(op = "tcp" /\ e.ev = "flush")
Bad(e) == e.res # "ok" \/ (e.ev = "to_socket_addrs" /\ e.at = 0)
BadAt(c) == {i \in 1..Len(log[c]) : Surfaced(args[c].op, log[c][i]) /\ Bad(log[c][i])}
FirstBad(c) == CHOOSE i \in BadAt(c) : \A j \in BadAt(c) : i <= j

\* The result of a delivered call is decided by its own arguments and the
\* outcomes of its own library calls.
OwnResult(c) ==
  IF BadAt(c) = {}
    THEN /\ result[c].tag = "Ok"
         /\ args[c].op = "list" => Len(result[c].val) = LastEvent(c).at
    ELSE /\ result[c].tag = "Err"
         /\ result[c].msg = StageText(args[c].op, log[c][FirstBad(c)].ev)
         /\ FirstBad(c) = Len(log[c])

C9_Isolation ==
  /\ \A h \in handles : IsPrefix(h.wire, args[h.owner].data)
  /\ \A c \in Calls :
       /\ delivered[c] = (IF pc[c] = "done" THEN 1 ELSE 0)
       /\ pc[c] # "done" => result[c] = NoResult
       /\ pc[c] = "done" => OwnResult(c)

\* C9: under every interleaving of concurrent calls, a connection carries only
\* bytes of the payload of the call that opened it, in order; the result of a
\* call is decided by its own arguments and the outcomes of its own library
\* calls; and every dispatched call delivers exactly one result.
C9_CallsIndependent ==
  /\ []C9_Isolation
  /\ <>(\A c \in Calls : pc[c] = "done" /\ delivered[c] = 1)

\* Two tcp calls to the same target ran together: one got a write error after
\* a partial write, the other returned Ok and its peer received its payload.
C9_Witness ==
  \E c \in Calls, d \in Calls :
    /\ c # d
    /\ args[c].op = "tcp" /\ args[d].op = "tcp"
    /\ pc[c] = "done" /\ result[c].msg = "TCP write failed"
    /\ \E h \in HandlesOf(c) : Len(h.wire) = 1
    /\ pc[d] = "done" /\ result[d].tag = "Ok"
    /\ \E h \in HandlesOf(d) : h.wire = args[d].data

====
